---- MODULE Spec2Model ----
(***************************************************************************)
(* Weather data collection pipeline: coordinate resolver with persistent   *)
(* cache, current/historical collection, the collection cycle of the       *)
(* scheduler and its two entry points.                                     *)
(*                                                                         *)
(* Sources: src/src/data_collection/weather_collector.py,                  *)
(*          src/src/data_collection/scheduler.py, src/config/config.py     *)
(***************************************************************************)
EXTENDS Integers, Sequences, FiniteSets, TLC

(* ------------------------------ bounds --------------------------------- *)
\* longest configured city list
MaxCities == 2
\* collection cycles one run of the scheduler may start
MaxCycles == 2
\* calls a direct client of the collector makes
MaxOps == 2
\* largest days_back a client passes to the historical backfill
MaxDays == 3
\* collection interval, in liveness ticks of the scheduler loop
IntervalTicks == 2
\* largest day offset of the synthetic derivation driven with extreme inputs
MaxOffset == 30

(* --------------------------- the environment --------------------------- *)
\* city names a configuration or a client may use
Names == {"London", "london", "Testville"}

\* the value Python's None / an empty geocoder answer is modelled by
None == [city |-> "", country |-> "", lat |-> 0, lon |-> 0]

\* first match of the geocoding endpoint for q = city (limit = 1);
\* the canonical name may differ from the query string
Geocode(city) ==
    CASE city = "London" -> [city |-> "London", country |-> "GB", lat |-> 51, lon |-> 0]
      [] city = "london" -> [city |-> "London", country |-> "GB", lat |-> 51, lon |-> 0]
      [] OTHER           -> None

\* outcomes of the GET against the current-weather endpoint:
\*   ok      complete payload
\*   noopt   payload without wind.speed, wind.deg, visibility
\*   http    connection error or error status (raise_for_status)
\*   json    body that is not JSON
\*   missing payload without a required field
FetchKinds == {"ok", "noopt", "http", "json", "missing"}

\* the answers the try block of a collection gets through: wind.speed,
\* wind.deg and visibility are read with .get and a default of 0
FetchOk_strict(fetch) == fetch = "ok"

FetchOk(fetch) == fetch \in {"ok", "noopt"}

\* the payload of a successful fetch; temperature in tenths of a degree,
\* wind speed in hundredths of m/s
Payload(fetch) ==
    [dt |-> 1000, temp |-> 215, feels_like |-> 203, humidity |-> 60,
     pressure |-> 1013, clouds |-> 40,
     wind_speed |-> IF fetch = "ok" THEN 350 ELSE 0,
     wind_deg   |-> IF fetch = "ok" THEN 270 ELSE 0,
     visibility |-> IF fetch = "ok" THEN 10000 ELSE 0]

(* ------------------------- coordinate resolver ------------------------- *)
\* SELECT * FROM city_coordinates WHERE city = ?
CacheLookup(cache, city) == {r \in cache : r.city = city}

\* city TEXT PRIMARY KEY: an INSERT of an existing key raises IntegrityError
DuplicateKey_never(cache, coords) == FALSE

DuplicateKey(cache, coords) == \E r \in cache : r.city = coords.city

\* the row INSERT INTO city_coordinates adds; created_at (DEFAULT
\* CURRENT_TIMESTAMP) is the position of the insert in the table's history
CacheRow(cache, coords) ==
    [city |-> coords.city, country |-> coords.country,
     latitude |-> coords.lat, longitude |-> coords.lon,
     created_at |-> Cardinality(cache) + 1]

\* the dict built from a cached row (result[0] .. result[3])
CoordsOfRow(row) ==
    [city |-> row.city, country |-> row.country, lat |-> row.latitude,
     lon |-> row.longitude]

\* get_city_coordinates(city); readOk: the cache SELECT succeeds,
\* netUp: the geocoding request succeeds.
\*   raised  an exception leaves the function (cache read, outside the try)
\*   ret     the returned coordinates, None for a failed resolution
\*   net     geocoding requests issued
\*   geo     hit | match | nomatch | fail | none
\*   dup     the INSERT hit an existing key
\*   err     the function logged an error
GetCityCoordinates(cache, city, readOk, netUp) ==
    IF ~readOk
    THEN [raised |-> TRUE, ret |-> None, cache |-> cache, net |-> 0,
          geo |-> "none", dup |-> FALSE, err |-> FALSE, city |-> city]
    ELSE IF CacheLookup(cache, city) # {}
    THEN LET result == CHOOSE r \in CacheLookup(cache, city) : TRUE
         IN  [raised |-> FALSE, ret |-> CoordsOfRow(result), cache |-> cache,
              net |-> 0,
              geo |-> "hit", dup |-> FALSE, err |-> FALSE, city |-> city]
    ELSE IF ~netUp
    THEN [raised |-> FALSE, ret |-> None, cache |-> cache, net |-> 1,
          geo |-> "fail", dup |-> FALSE, err |-> TRUE, city |-> city]
    ELSE IF Geocode(city) = None
    THEN [raised |-> FALSE, ret |-> None, cache |-> cache, net |-> 1,
          geo |-> "nomatch", dup |-> FALSE, err |-> FALSE, city |-> city]
    ELSE LET coords == Geocode(city)
         IN  IF DuplicateKey(cache, coords)
             THEN [raised |-> FALSE, ret |-> None, cache |-> cache, net |-> 1,
                   geo |-> "match", dup |-> TRUE, err |-> TRUE, city |-> city]
             ELSE [raised |-> FALSE, ret |-> coords,
                   cache |-> cache \cup {CacheRow(cache, coords)}, net |-> 1,
                   geo |-> "match", dup |-> FALSE, err |-> FALSE, city |-> city]

\* what the call history keeps of a call
CallRecord(res) ==
    [raised |-> res.raised, ret |-> res.ret, net |-> res.net, geo |-> res.geo,
     dup |-> res.dup, err |-> res.err, city |-> res.city]

\* the record of "no call made yet"
NoCall ==
    [raised |-> FALSE, ret |-> None, net |-> 0,
     geo |-> "none", dup |-> FALSE, err |-> FALSE, city |-> ""]

(* -------------------------- current collection ------------------------- *)
\* `if not coords` of collect_current_weather / collect_historical_weather
NotCoords_never(coords) == FALSE

NotCoords(coords) == coords = None

\* the row store_current_weather inserts (id: AUTOINCREMENT)
CurrentRow(table, coords, data) ==
    [id |-> Len(table) + 1, city |-> coords.city, country |-> coords.country,
     latitude |-> coords.lat, longitude |-> coords.lon,
     timestamp |-> data.dt, temperature |-> data.temp,
     humidity |-> data.humidity, wind_speed |-> data.wind_speed,
     wind_direction |-> data.wind_deg, visibility |-> data.visibility,
     cloud_cover |-> data.clouds]

\* the text of the exception a failed fetch raises inside the try
FetchException(fetch) ==
    CASE fetch = "http"    -> "HTTPError"
      [] fetch = "json"    -> "JSONDecodeError"
      [] fetch = "missing" -> "KeyError"
      [] OTHER             -> ""

\* the text of the exception a failed INSERT of store_current_weather raises
StoreException == "sqlite3.Error"

\* logger.error(f"Error collecting current weather for {city}: {e}")
CollectErrorLine_bare(exc) ==
    [level |-> "ERROR", msg |-> "Error collecting current weather", exc |-> ""]

CollectErrorLine(exc) ==
    [level |-> "ERROR", msg |-> "Error collecting current weather", exc |-> exc]

\* logger.error(f"Could not get coordinates for {city}")
CoordsErrorLine ==
    [level |-> "ERROR", msg |-> "Could not get coordinates", exc |-> ""]

\* logger.info(f"Collected current weather for {city}")
CollectedLine ==
    [level |-> "INFO", msg |-> "Collected current weather", exc |-> ""]

NoLine == [level |-> "", msg |-> "", exc |-> ""]

\* collect_current_weather(city)
\*   outcome  "true" | "false" | "raise"
\*   fetch    the answer of the weather endpoint, "" when none was asked
\*   log      the line the function logs before it returns
CollectCurrentWeather(cache, table, city, readOk, netUp, fetch, storeOk) ==
    LET res == GetCityCoordinates(cache, city, readOk, netUp)
    IN  IF res.raised
        THEN [outcome |-> "raise", res |-> res, cache |-> res.cache,
              table |-> table, fetches |-> 0, fetch |-> "", log |-> NoLine]
        ELSE IF NotCoords(res.ret)
        THEN [outcome |-> "false", res |-> res, cache |-> res.cache,
              table |-> table, fetches |-> 0, fetch |-> "",
              log |-> CoordsErrorLine]
        ELSE IF ~FetchOk(fetch)
        THEN [outcome |-> "false", res |-> res, cache |-> res.cache,
              table |-> table, fetches |-> 1, fetch |-> fetch,
              log |-> CollectErrorLine(FetchException(fetch))]
        ELSE IF ~storeOk
        THEN [outcome |-> "false", res |-> res, cache |-> res.cache,
              table |-> table, fetches |-> 1, fetch |-> fetch,
              log |-> CollectErrorLine(StoreException)]
        ELSE [outcome |-> "true", res |-> res, cache |-> res.cache,
              table |-> Append(table, CurrentRow(table, res.ret, Payload(fetch))),
              fetches |-> 1, fetch |-> fetch, log |-> CollectedLine]

\* what the history keeps of a call of a method of the collector
Call(op, outcome, fetch, log) ==
    [op |-> op, outcome |-> outcome, fetch |-> fetch, log |-> log]

NoCallYet == Call("", "", "", NoLine)

(* ------------------------------- state --------------------------------- *)
VARIABLES
    apiKey,             \* Config.OPENWEATHER_API_KEY is set
    entry,              \* run_once | run_continuous | client
    cities,             \* Config.CITIES / WeatherConfig.cities
    pc,                 \* position of the single thread of control
    abort,              \* the exception that ended the process, "" if none
    storeInit,          \* init_database has run
    city_coordinates,   \* table city_coordinates (set of rows, key city)
    current_weather,    \* table current_weather (rows in id order)
    historical_weather, \* table historical_weather (rows in id order)
    csv,                \* row counts of the exported files, -1: no file
    idx,                \* collect_all_current: position in the city list
    success_count,      \* collect_all_current: success_count
    caller,             \* who invoked collect_all_current
    active,             \* invocations of collect_all_current in progress
    cycles,             \* invocations of collect_all_current started
    elapsed,            \* ticks since the job was (re)scheduled, saturating
    slept,              \* time.sleep(API_DELAY_SECONDS) ran since the last city
    netCalls,           \* HTTP requests of the running cycle / client call
    lastRes,            \* the last call of get_city_coordinates
    prevRes,            \* the call of get_city_coordinates before it
    cyc,                \* what the running / last cycle did and logged
    ops,                \* calls made by the client
    hist,               \* collect_historical_weather: locals of the call
    lastHist,           \* the last finished collect_historical_weather
    lastCall            \* the last call of a method of the collector

vars == <<apiKey, entry, cities, pc, abort, storeInit, city_coordinates,
          current_weather, historical_weather, csv, idx, success_count,
          caller, active, cycles, elapsed, slept, netCalls, lastRes, prevRes,
          cyc, ops, hist, lastHist, lastCall>>

config == <<apiKey, entry, cities>>
tables == <<city_coordinates, current_weather, historical_weather>>
cycleLocals == <<idx, success_count, caller, active, cycles, slept, cyc>>
histLocals == <<hist, lastHist>>

\* the city lists a configuration can hold
CityLists == UNION {[1..n -> Names] : n \in 1..MaxCities}

\* WeatherConfig.cities of a collector a client constructs; no method a
\* client calls reads it
DefaultCities == <<"New York", "London", "Tokyo", "Sydney">>

Min(a, b) == IF a < b THEN a ELSE b

NoCycle ==
    [status |-> "none", good |-> 0, unres |-> 0, rows0 |-> 0, exports |-> 0,
     succeeded |-> 0, attempted |-> 0, processed |-> 0,
     snap |-> <<{}, <<>>, <<>>>>]

NoHist ==
    [city |-> "", coords |-> None, days |-> 0, i |-> 0, success_count |-> 0,
     tried |-> <<>>, failed |-> 0, rows0 |-> 0]

NoHistResult ==
    [status |-> "none", resolved |-> FALSE, days |-> 0, tried |-> <<>>,
     failed |-> 0, gained |-> 0, ret |-> FALSE]

Init ==
    /\ apiKey \in BOOLEAN
    /\ entry \in {"run_once", "run_continuous", "client"}
    /\ cities \in IF entry = "client" THEN {DefaultCities} ELSE CityLists
    /\ pc = "new"
    /\ abort = ""
    /\ storeInit = FALSE
    /\ city_coordinates = {}
    /\ current_weather = <<>>
    /\ historical_weather = <<>>
    /\ csv = [current |-> -1, historical |-> -1]
    /\ idx = 1
    /\ success_count = 0
    /\ caller = ""
    /\ active = 0
    /\ cycles = 0
    /\ elapsed = 0
    /\ slept = FALSE
    /\ netCalls = 0
    /\ lastRes = NoCall
    /\ prevRes = NoCall
    /\ cyc = NoCycle
    /\ ops = 0
    /\ hist = NoHist
    /\ lastHist = NoHistResult
    /\ lastCall = NoCallYet

\* a request needs the credential: without it the endpoint answers 401
NetChoices == IF apiKey THEN BOOLEAN ELSE {FALSE}
FetchChoices == IF apiKey THEN FetchKinds ELSE {"http"}

\* the backfill is driven with complete payloads and with failures
HistFetchChoices == FetchChoices \ {"noopt"}

(* ----------------------------- start-up -------------------------------- *)
\* Config.validate(): the credential is present
Validate == apiKey

\* WeatherScheduler.__init__: validate, then construct the collector
\* (WeatherDataCollector.__init__ runs init_database)
SchedulerInit ==
    /\ pc = "new"
    /\ entry \in {"run_once", "run_continuous"}
    /\ IF Validate
       THEN /\ storeInit' = TRUE
            /\ pc' = "constructed"
            /\ abort' = abort
       ELSE /\ pc' = "aborted"
            /\ abort' = "config"
            /\ storeInit' = storeInit
    /\ UNCHANGED <<config, tables, csv, cycleLocals, elapsed, netCalls,
                   lastRes, prevRes, ops, lastCall, histLocals>>

\* WeatherDataCollector(config) constructed directly, as main() does
CollectorInit ==
    /\ pc = "new"
    /\ entry = "client"
    /\ storeInit' = TRUE
    /\ pc' = "client"
    /\ UNCHANGED <<config, abort, tables, csv, cycleLocals, elapsed, netCalls,
                   lastRes, prevRes, ops, lastCall, histLocals>>

(* ------------------------- collect_all_current ------------------------- *)
\* entry of collect_all_current, invoked by who
CycleBegin(who) ==
    /\ idx' = 1
    /\ success_count' = 0
    /\ caller' = who
    /\ active' = active + 1
    /\ cycles' = cycles + 1
    /\ slept' = FALSE
    /\ netCalls' = 0
    /\ cyc' = [NoCycle EXCEPT !.status = "running",
                              !.rows0 = Len(current_weather),
                              !.snap = tables]
    /\ pc' = "cycle_city"

\* the loop's next position after the city at idx
AfterCity == IF idx < Len(cities) THEN "cycle_city" ELSE "cycle_end"

\* a city the geocoder resolves (its request, when one is made, is answered)
\* and the weather endpoint serves, with the store answering
Good(city, geo, readOk, fetch, storeOk) ==
    Geocode(city) # None /\ geo # "fail" /\ FetchOk(fetch) /\ readOk /\ storeOk

\* one iteration of the loop up to the sleep: collect_current_weather(city)
\* inside the try
CollectCity ==
    /\ pc = "cycle_city"
    /\ \E readOk \in BOOLEAN, netUp \in NetChoices, fetch \in FetchChoices,
          storeOk \in BOOLEAN, dt \in 0..1 :
         LET city == cities[idx]
             r == CollectCurrentWeather(city_coordinates, current_weather,
                                        city, readOk, netUp, fetch, storeOk)
         IN  /\ city_coordinates' = r.cache
             /\ current_weather' = r.table
             /\ netCalls' = netCalls + r.res.net + r.fetches
             /\ prevRes' = lastRes
             /\ lastRes' = CallRecord(r.res)
             /\ success_count' = IF r.outcome = "true"
                                 THEN success_count + 1 ELSE success_count
             /\ lastCall' = Call("collect_current_weather", r.outcome,
                                  r.fetch, r.log)
             /\ slept' = FALSE
             /\ elapsed' = IF entry = "run_continuous"
                           THEN Min(elapsed + dt, IntervalTicks)
                           ELSE elapsed
             /\ cyc' = [cyc EXCEPT
                          !.processed = @ + 1,
                          !.good = IF Good(city, r.res.geo, readOk, fetch, storeOk)
                                   THEN @ + 1 ELSE @,
                          !.unres = IF r.res.geo \in {"nomatch", "fail"}
                                    THEN @ + 1 ELSE @]
             /\ IF r.outcome = "raise"
                THEN /\ idx' = idx + 1
                     /\ pc' = AfterCity
                ELSE /\ idx' = idx
                     /\ pc' = "cycle_sleep"
    /\ UNCHANGED <<config, abort, storeInit, historical_weather, csv, caller,
                   active, cycles, ops, histLocals>>

\* time.sleep(Config.API_DELAY_SECONDS), the last statement of the try
CycleSleep ==
    /\ pc = "cycle_sleep"
    /\ slept' = TRUE
    /\ idx' = idx + 1
    /\ pc' = AfterCity
    /\ UNCHANGED <<config, abort, storeInit, tables, csv, success_count,
                   caller, active, cycles, elapsed, netCalls, lastRes, prevRes,
                   cyc, ops, lastCall, histLocals>>

\* `if success_count > 0` before the export
ShouldExport_always(count) == count >= 0

ShouldExport(count) == count > 0

\* where export_to_csv can raise: nowhere, at makedirs / connect, at the
\* write of the first file, at the write of the second
ExportFaults == {"none", "open", "current", "historical"}

\* export_to_csv(table = 'both'): each table written in full, the current
\* table first; a fault leaves the files written before it
ExportToCsv(fault) ==
    [current |-> IF fault \in {"none", "historical"}
                 THEN Len(current_weather) ELSE csv.current,
     historical |-> IF fault = "none"
                    THEN Len(historical_weather) ELSE csv.historical]

\* where control goes when collect_all_current returns
ReturnTo == CASE caller = "run_once" -> "summary"
              [] caller = "initial"  -> "run_pending"
              [] OTHER               -> "tick_sleep"

\* after the loop: the summary line, the export, the return
CycleFinish ==
    /\ pc = "cycle_end"
    /\ \E fault \in ExportFaults :
         LET export == ShouldExport(success_count)
             raised == export /\ fault # "none"
         IN  /\ cyc' = [cyc EXCEPT
                          !.status = IF raised THEN "raised" ELSE "returned",
                          !.succeeded = success_count,
                          !.attempted = Len(cities),
                          !.exports = IF export THEN @ + 1 ELSE @]
             /\ csv' = IF export THEN ExportToCsv(fault) ELSE csv
             /\ active' = active - 1
             /\ IF raised
                THEN /\ pc' = "aborted"
                     /\ abort' = "export"
                     /\ elapsed' = elapsed
                ELSE /\ pc' = ReturnTo
                     /\ abort' = abort
                     /\ elapsed' = IF caller = "job" THEN 0 ELSE elapsed
    /\ UNCHANGED <<config, storeInit, tables, idx, success_count, caller,
                   cycles, slept, netCalls, lastRes, prevRes, ops, lastCall,
                   histLocals>>

(* ---------------------------- entry points ----------------------------- *)
\* run_once: the cycle, then the summary
RunOnce ==
    /\ pc = "constructed"
    /\ entry = "run_once"
    /\ CycleBegin("run_once")
    /\ UNCHANGED <<config, abort, storeInit, tables, csv, elapsed,
                   lastRes, prevRes, ops, lastCall, histLocals>>

\* get_data_summary and the print that ends run_once
Summary ==
    /\ pc = "summary"
    /\ pc' = "done"
    /\ UNCHANGED <<config, abort, storeInit, tables, csv, cycleLocals, elapsed,
                   netCalls, lastRes, prevRes, ops, lastCall, histLocals>>

\* run_continuous up to the initial collection: the job is scheduled, then
\* collect_all_current is called in place
RunContinuous_detached ==
    /\ pc = "constructed"
    /\ entry = "run_continuous"
    /\ elapsed' = 0
    /\ active' = active + 1
    /\ cycles' = cycles + 1
    /\ pc' = "run_pending"
    /\ UNCHANGED <<config, abort, storeInit, tables, csv, idx, success_count,
                   caller, slept, cyc, netCalls, lastRes, prevRes, ops, lastCall,
                   histLocals>>

RunContinuous ==
    /\ pc = "constructed"
    /\ entry = "run_continuous"
    /\ elapsed' = 0
    /\ CycleBegin("initial")
    /\ UNCHANGED <<config, abort, storeInit, tables, csv, lastRes,
                   prevRes, ops, lastCall, histLocals>>

\* schedule.run_pending(): the job runs, in place, when its interval elapsed
RunPending ==
    /\ pc = "run_pending"
    /\ IF elapsed >= IntervalTicks
       THEN /\ cycles < MaxCycles
            /\ CycleBegin("job")
       ELSE /\ pc' = "tick_sleep"
            /\ UNCHANGED <<cycleLocals, netCalls>>
    /\ UNCHANGED <<config, abort, storeInit, tables, csv, elapsed,
                   lastRes, prevRes, ops, lastCall, histLocals>>

\* time.sleep(60) of the loop
TickSleep ==
    /\ pc = "tick_sleep"
    /\ elapsed' = Min(elapsed + 1, IntervalTicks)
    /\ pc' = "run_pending"
    /\ UNCHANGED <<config, abort, storeInit, tables, csv, cycleLocals,
                   netCalls, lastRes, prevRes, ops, lastCall, histLocals>>

(* ------------------------ historical backfill -------------------------- *)
Max(a, b) == IF a > b THEN a ELSE b

\* the synthetic record of day offset i (timestamp in days relative to now)
HistoricalRow_unclamped(table, coords, data, i) ==
    [id |-> Len(table) + 1, city |-> coords.city,
     latitude |-> coords.lat, longitude |-> coords.lon,
     timestamp |-> 0 - (i + 1),
     temperature |-> data.temp + i,
     feels_like |-> data.feels_like + i,
     humidity |-> Min(100, data.humidity + (i % 10)),
     pressure |-> data.pressure + (i % 5),
     wind_speed |-> Max(0, data.wind_speed + (i * 5)),
     wind_direction |-> (data.wind_deg + (i * 2)) % 360,
     cloud_cover |-> Max(0, Min(100, data.clouds + (i % 20)))]

HistoricalRow(table, coords, data, i) ==
    [id |-> Len(table) + 1, city |-> coords.city,
     latitude |-> coords.lat, longitude |-> coords.lon,
     timestamp |-> 0 - (i + 1),
     temperature |-> data.temp + i,
     feels_like |-> data.feels_like + i,
     humidity |-> Max(0, Min(100, data.humidity + (i % 10))),
     pressure |-> data.pressure + (i % 5),
     wind_speed |-> Max(0, data.wind_speed + (i * 5)),
     wind_direction |-> (data.wind_deg + (i * 2)) % 360,
     cloud_cover |-> Max(0, Min(100, data.clouds + (i % 20)))]

\* `return success_count > 0`
HistoricalResult_all(count, days_back) == count = days_back

HistoricalResult(count, days_back) == count > 0

\* collect_historical_weather(city, days_back) up to the loop
HistoricalBegin ==
    /\ pc = "client"
    /\ ops < MaxOps
    /\ \E city \in Names, days_back \in 0..MaxDays, readOk \in BOOLEAN,
          netUp \in NetChoices :
         LET res == GetCityCoordinates(city_coordinates, city, readOk, netUp)
         IN  /\ city_coordinates' = res.cache
             /\ netCalls' = res.net
             /\ prevRes' = lastRes
             /\ lastRes' = CallRecord(res)
             /\ IF res.raised \/ NotCoords(res.ret)
                THEN /\ pc' = "client"
                     /\ hist' = hist
                     /\ lastHist' = [NoHistResult EXCEPT
                                       !.status = IF res.raised THEN "raised"
                                                  ELSE "returned",
                                       !.days = days_back]
                ELSE /\ pc' = "hist_day"
                     /\ hist' = [NoHist EXCEPT
                                   !.city = city, !.coords = res.ret,
                                   !.days = days_back,
                                   !.rows0 = Len(historical_weather)]
                     /\ lastHist' = lastHist
             /\ lastCall' = Call("collect_historical_weather",
                                  IF res.raised THEN "raise" ELSE "", "",
                                  IF ~res.raised /\ NotCoords(res.ret)
                                  THEN CoordsErrorLine ELSE NoLine)
    /\ ops' = ops + 1
    /\ UNCHANGED <<config, abort, storeInit, current_weather,
                   historical_weather, csv, cycleLocals, elapsed>>

\* one iteration of `for i in range(days_back)`
HistoricalDay ==
    /\ pc = "hist_day"
    /\ hist.i < hist.days
    /\ \E fetch \in HistFetchChoices, storeOk \in BOOLEAN :
         LET ok == FetchOk(fetch) /\ storeOk
         IN  /\ historical_weather' =
                  IF ok
                  THEN Append(historical_weather,
                              HistoricalRow(historical_weather, hist.coords,
                                            Payload(fetch), hist.i))
                  ELSE historical_weather
             /\ hist' = [hist EXCEPT
                           !.i = @ + 1,
                           !.tried = Append(@, hist.i),
                           !.success_count = IF ok THEN @ + 1 ELSE @,
                           !.failed = IF ok THEN @ ELSE @ + 1]
    /\ netCalls' = netCalls + 1
    /\ UNCHANGED <<config, pc, abort, storeInit, city_coordinates,
                   current_weather, csv, cycleLocals, elapsed, lastRes,
                   prevRes, ops, lastCall, lastHist>>

\* the summary line and the return after the loop
HistoricalReturn ==
    /\ pc = "hist_day"
    /\ hist.i >= hist.days
    /\ lastHist' = [status |-> "returned", resolved |-> TRUE,
                    days |-> hist.days, tried |-> hist.tried,
                    failed |-> hist.failed,
                    gained |-> Len(historical_weather) - hist.rows0,
                    ret |-> HistoricalResult(hist.success_count, hist.days)]
    /\ hist' = NoHist
    /\ pc' = "client"
    /\ UNCHANGED <<config, abort, storeInit, tables, csv, cycleLocals, elapsed,
                   netCalls, lastRes, prevRes, ops, lastCall>>

(* ------------------------- calls by a client --------------------------- *)
\* get_city_coordinates(city) called directly
ClientResolve ==
    /\ pc = "client"
    /\ ops < MaxOps
    /\ \E city \in Names, readOk \in BOOLEAN, netUp \in NetChoices :
         LET res == GetCityCoordinates(city_coordinates, city, readOk, netUp)
         IN  /\ city_coordinates' = res.cache
             /\ netCalls' = res.net
             /\ prevRes' = lastRes
             /\ lastRes' = CallRecord(res)
             /\ lastCall' = Call("get_city_coordinates",
                                  IF res.raised THEN "raise" ELSE "", "",
                                  NoLine)
    /\ ops' = ops + 1
    /\ UNCHANGED <<config, pc, abort, storeInit, current_weather,
                   historical_weather, csv, cycleLocals, elapsed, histLocals>>

\* collect_current_weather(city) called directly
ClientCollectCurrent ==
    /\ pc = "client"
    /\ ops < MaxOps
    /\ \E city \in Names, readOk \in BOOLEAN, netUp \in NetChoices,
          fetch \in FetchChoices, storeOk \in BOOLEAN :
         LET r == CollectCurrentWeather(city_coordinates, current_weather,
                                        city, readOk, netUp, fetch, storeOk)
         IN  /\ city_coordinates' = r.cache
             /\ current_weather' = r.table
             /\ netCalls' = r.res.net + r.fetches
             /\ prevRes' = lastRes
             /\ lastRes' = CallRecord(r.res)
             /\ lastCall' = Call("collect_current_weather", r.outcome,
                                  r.fetch, r.log)
    /\ ops' = ops + 1
    /\ UNCHANGED <<config, pc, abort, storeInit, historical_weather, csv,
                   cycleLocals, elapsed, histLocals>>

\* init_database(): CREATE TABLE IF NOT EXISTS keeps the tables that exist,
\* with their rows
InitDatabase_recreate(store) == <<{}, <<>>, <<>>>>

InitDatabase(store) == store

\* init_database() called again on the open store
ClientInitDatabase ==
    /\ pc = "client"
    /\ ops < MaxOps
    /\ city_coordinates' = InitDatabase(tables)[1]
    /\ current_weather' = InitDatabase(tables)[2]
    /\ historical_weather' = InitDatabase(tables)[3]
    /\ storeInit' = TRUE
    /\ netCalls' = 0
    /\ lastCall' = Call("init_database", "", "", NoLine)
    /\ ops' = ops + 1
    /\ UNCHANGED <<config, pc, abort, csv, cycleLocals, elapsed, lastRes,
                   prevRes, histLocals>>

\* get_data_summary(): three reads
GetDataSummary ==
    [current_records |-> Len(current_weather),
     historical_records |-> Len(historical_weather),
     cities |-> {current_weather[k].city : k \in 1..Len(current_weather)},
     total_records |-> Len(current_weather) + Len(historical_weather)]

\* get_data_summary() called directly
ClientSummary ==
    /\ pc = "client"
    /\ ops < MaxOps
    /\ netCalls' = 0
    /\ lastCall' = Call("get_data_summary", "", "", NoLine)
    /\ ops' = ops + 1
    /\ UNCHANGED <<config, pc, abort, storeInit, tables, csv, cycleLocals,
                   elapsed, lastRes, prevRes, histLocals>>

\* export_to_csv() called directly
ClientExport ==
    /\ pc = "client"
    /\ ops < MaxOps
    /\ \E fault \in ExportFaults :
         /\ csv' = ExportToCsv(fault)
         /\ lastCall' = Call("export_to_csv",
                              IF fault = "none" THEN "" ELSE "raise", "",
                              NoLine)
    /\ netCalls' = 0
    /\ ops' = ops + 1
    /\ UNCHANGED <<config, pc, abort, storeInit, tables, cycleLocals, elapsed,
                   lastRes, prevRes, histLocals>>

(* ------------- the synthetic derivation on extreme inputs -------------- *)
\* values of main.humidity, clouds.all and wind.deg the endpoint may answer,
\* in range, negative and above the range
HumidityInputs == {0 - 40, 0 - 1, 60, 95, 140}
CloudInputs == {0 - 40, 0 - 1, 40, 85, 140}
DegInputs == {0 - 725, 0 - 1, 0, 270, 1000}

\* the loop of collect_historical_weather for a resolved city, about to
\* run its last iteration, at any day offset up to MaxOffset; the days
\* before it failed
InitSynthetic ==
    /\ apiKey = TRUE
    /\ entry = "client"
    /\ cities = DefaultCities
    /\ pc = "hist_day"
    /\ abort = ""
    /\ storeInit = TRUE
    /\ city_coordinates = {CacheRow({}, Geocode("London"))}
    /\ current_weather = <<>>
    /\ historical_weather = <<>>
    /\ csv = [current |-> -1, historical |-> -1]
    /\ idx = 1
    /\ success_count = 0
    /\ caller = ""
    /\ active = 0
    /\ cycles = 0
    /\ elapsed = 0
    /\ slept = FALSE
    /\ netCalls = 0
    /\ lastRes = NoCall
    /\ prevRes = NoCall
    /\ cyc = NoCycle
    /\ ops = 1
    /\ hist \in {[NoHist EXCEPT !.city = "London",
                                 !.coords = Geocode("London"),
                                 !.days = i + 1, !.i = i,
                                 !.tried = [k \in 1..i |-> k - 1],
                                 !.failed = i] : i \in 0..MaxOffset}
    /\ lastHist = NoHistResult
    /\ lastCall = NoCallYet

\* the iteration on an answer with the given humidity, cloud cover and wind
\* direction, stored
SyntheticDay ==
    /\ pc = "hist_day"
    /\ hist.i < hist.days
    /\ \E h \in HumidityInputs, c \in CloudInputs, d \in DegInputs :
         LET data == [Payload("ok") EXCEPT !.humidity = h, !.clouds = c,
                                          !.wind_deg = d]
         IN  historical_weather' =
                 Append(historical_weather,
                        HistoricalRow(historical_weather, hist.coords, data,
                                      hist.i))
    /\ hist' = [hist EXCEPT !.i = @ + 1,
                            !.tried = Append(@, hist.i),
                            !.success_count = @ + 1]
    /\ netCalls' = netCalls + 1
    /\ UNCHANGED <<config, pc, abort, storeInit, city_coordinates,
                   current_weather, csv, cycleLocals, elapsed, lastRes,
                   prevRes, ops, lastCall, lastHist>>

NextSynthetic == SyntheticDay

SpecSynthetic == InitSynthetic /\ [][NextSynthetic]_vars

(* --------------------------- specification ----------------------------- *)
Next ==
    \/ SchedulerInit
    \/ CollectorInit
    \/ RunOnce
    \/ RunContinuous
    \/ CollectCity
    \/ CycleSleep
    \/ CycleFinish
    \/ Summary
    \/ RunPending
    \/ TickSleep
    \/ ClientResolve
    \/ ClientCollectCurrent
    \/ HistoricalBegin
    \/ HistoricalDay
    \/ HistoricalReturn
    \/ ClientInitDatabase
    \/ ClientSummary
    \/ ClientExport

Spec == Init /\ [][Next]_vars

(* ------------------------------ properties ----------------------------- *)
CyclePcs == {"cycle_city", "cycle_sleep", "cycle_end"}
CycleOver == cyc.status \in {"returned", "raised"}

\* the last two calls of get_city_coordinates had the same input, neither
\* raised, and the geocoder, where asked, answered with a match
SameCityTwice ==
    /\ prevRes.city # ""
    /\ lastRes.city = prevRes.city
    /\ ~prevRes.raised /\ ~lastRes.raised
    /\ Geocode(lastRes.city) # None
    /\ prevRes.geo \in {"hit", "match"}
    /\ lastRes.geo \in {"hit", "match"}

\* C1: resolving the same city name twice in succession, the geocoder
\* answering with a match, returns the same coordinates both times and
\* issues at most one geocoding request in total, also when the canonical
\* name differs from the input.
C1_ResolveTwice ==
    SameCityTwice =>
        /\ lastRes.ret = prevRes.ret
        /\ prevRes.net + lastRes.net <= 1

\* C2: a finished cycle over N cities of which K are resolvable by the
\* geocoder and fetchable reports attempted = N and succeeded = K, and the
\* current-observation table has gained exactly K rows.
C2_CycleCounts ==
    CycleOver =>
        /\ cyc.attempted = Len(cities)
        /\ cyc.succeeded = cyc.good
        /\ Len(current_weather) - cyc.rows0 = cyc.good

\* C3: a cycle never raises to its caller, whatever failed in it, and every
\* configured city has been attempted when it ends.
C3_CycleNeverRaises ==
    /\ cyc.status # "raised"
    /\ cyc.status = "returned" => cyc.processed = Len(cities)

\* C4: within a cycle, the first request of every city after the first is
\* issued only after the inter-request delay was taken since the previous
\* city was processed, however that processing ended.
C4_DelayBetweenCities ==
    [][(pc = "cycle_city" /\ idx > 1 /\ netCalls' > netCalls) => slept]_vars

\* C5: under run_continuous at most one cycle is in progress in every state,
\* and none is in progress when the loop checks for due work or sleeps
\* between two checks.
C5_OneCycleAtATime ==
    entry = "run_continuous" =>
        /\ active <= 1
        /\ pc \in {"run_pending", "tick_sleep"} => active = 0
        /\ pc \in CyclePcs => active = 1

\* C5 witness: the initial cycle is still running although the collection
\* interval has elapsed since the job was scheduled.
C5_Witness ==
    /\ entry = "run_continuous"
    /\ caller = "initial"
    /\ pc \in CyclePcs
    /\ elapsed >= IntervalTicks
    /\ active = 1

\* C6: without the credential, start-up of the scheduler fails before the
\* store is initialised, before any request and before any cycle; and the
\* configuration error is the only exception that ends the process.
C6_OnlyValidationAborts ==
    entry # "client" =>
        /\ ~apiKey => /\ ~storeInit
                      /\ netCalls = 0
                      /\ cycles = 0
                      /\ pc \in {"new", "aborted"}
        /\ pc = "aborted" => abort = "config"

\* C7: a resolution whose cache insert meets an existing key returns the
\* cached coordinates, and logs no error.
C7_DuplicateKeyRereads ==
    lastRes.dup =>
        /\ lastRes.ret # None
        /\ \E row \in city_coordinates : CoordsOfRow(row) = lastRes.ret
        /\ ~lastRes.err

\* C8: no export happens while the cities of a cycle are being processed; a
\* finished cycle has triggered exactly one export when it had a success
\* and none when it had no success.
C8_ExportAfterLoop ==
    /\ cyc.status = "running" => cyc.exports = 0
    /\ CycleOver => cyc.exports = (IF cyc.succeeded > 0 THEN 1 ELSE 0)

\* C8 witness: a finished cycle with a success and its one export.
C8_Witness ==
    /\ cyc.status = "returned"
    /\ cyc.succeeded >= 1
    /\ cyc.exports = 1
    /\ csv.current = Len(current_weather)

\* C9: processing a city whose geocoding lookup returned no match or failed
\* returns no coordinates, leaves the three tables and the success count
\* unchanged, and the loop goes on; a cycle whose cities were all unresolved
\* ends with every city attempted, none succeeded and the store as it was
\* when the cycle began.
C9_UnresolvedCity ==
    [][/\ (/\ pc = "cycle_city"
           /\ cyc'.processed = cyc.processed + 1
           /\ lastRes'.geo \in {"nomatch", "fail"})
          => /\ lastRes'.ret = None
             /\ tables' = tables
             /\ success_count' = success_count
             /\ pc' = "cycle_sleep"
       /\ (cyc'.status \in {"returned", "raised"} /\ cyc'.unres = Len(cities))
          => /\ cyc'.attempted = Len(cities)
             /\ cyc'.processed = Len(cities)
             /\ cyc'.succeeded = 0
             /\ tables' = cyc'.snap]_vars

\* C9 witness: the cycle over the single city "Testville", which the
\* geocoder does not know, has ended.
C9_Witness ==
    /\ cities = <<"Testville">>
    /\ cyc.status = "returned"
    /\ lastRes.geo = "nomatch"
    /\ cyc.unres = 1
    /\ cyc.attempted = 1
    /\ cyc.succeeded = 0

\* C10: a backfill of a resolved city with days_back = D attempts every day
\* index 0 .. D-1 exactly once, in order, whatever days failed; the
\* historical table gains D minus the number of failed days rows; and the
\* call returns True exactly when at least one day succeeded.
C10_BackfillSkipsFailedDays ==
    (lastHist.status = "returned" /\ lastHist.resolved) =>
        /\ lastHist.tried = [k \in 1..lastHist.days |-> k - 1]
        /\ lastHist.gained = lastHist.days - lastHist.failed
        /\ lastHist.ret = (lastHist.gained > 0)

\* C10 witness: a backfill of MaxDays days in which a day before the last
\* failed and the days after it were still stored.
C10_Witness ==
    /\ lastHist.status = "returned"
    /\ lastHist.resolved
    /\ lastHist.days = MaxDays
    /\ lastHist.failed = 1
    /\ lastHist.ret
    /\ Len(historical_weather) = MaxDays - 1
    /\ historical_weather[1].timestamp = 0 - 1
    /\ historical_weather[MaxDays - 1].timestamp = 0 - MaxDays

\* C11: every synthetic historical record has humidity and cloud cover in
\* 0 .. 100 and wind direction in 0 .. 359, for every day offset and every
\* integer humidity, cloud cover and wind direction of the answer, negative
\* and out-of-range values included.
C11_SyntheticRanges ==
    \A k \in 1..Len(historical_weather) :
        LET row == historical_weather[k]
        IN  /\ 0 <= row.humidity /\ row.humidity <= 100
            /\ 0 <= row.cloud_cover /\ row.cloud_cover <= 100
            /\ 0 <= row.wind_direction /\ row.wind_direction < 360

\* C11 witness: the record of day offset 0 derived from a negative humidity
\* (clamped to 0), a cloud cover above 100 (clamped to 100) and the wind
\* direction -1 (wrapped to 359).
C11_Witness ==
    /\ pc = "hist_day"
    /\ hist.i = 1
    /\ Len(historical_weather) = 1
    /\ historical_weather[1].timestamp = 0 - 1
    /\ historical_weather[1].humidity = 0
    /\ historical_weather[1].cloud_cover = 100
    /\ historical_weather[1].wind_direction = 359

\* the last call was a collect_current_weather whose fetch was answered and
\* whose INSERT failed
InsertFailed(call) ==
    /\ call.op = "collect_current_weather"
    /\ FetchOk(call.fetch)
    /\ call.outcome = "false"

\* the lines collect_current_weather logs for the failures of a fetch
FetchFailureLines ==
    {CollectErrorLine(FetchException(fetch)) : fetch \in {"http", "json", "missing"}}

IsPrefix(xs, ys) ==
    /\ Len(xs) <= Len(ys)
    /\ \A k \in 1..Len(xs) : xs[k] = ys[k]

\* C13: the three tables are append-only under every operation: every step
\* keeps every row of the coordinate cache, and keeps the rows of the
\* current and the historical table as they are, in place, adding rows only
\* at the end; so does init_database run again on the store.
C13_AppendOnly ==
    [][/\ city_coordinates \subseteq city_coordinates'
       /\ IsPrefix(current_weather, current_weather')
       /\ IsPrefix(historical_weather, historical_weather')]_vars

\* C13 witness: init_database has been run again on a store that holds a
\* cached city and an observation, and both are still there.
C13_Witness ==
    /\ lastCall.op = "init_database"
    /\ city_coordinates # {}
    /\ Len(current_weather) + Len(historical_weather) >= 1

\* C14: in every reachable state the coordinate cache holds at most one row
\* per city name.
C14_OneRowPerCity ==
    \A r1, r2 \in city_coordinates : r1.city = r2.city => r1 = r2

\* C14 witness: after "London" was cached, a resolution of "london", for
\* which the geocoder answers "London" again, reached the insert; the cache
\* holds the one row.
C14_Witness ==
    /\ lastRes.city = "london"
    /\ lastRes.geo = "match"
    /\ lastRes.dup
    /\ Cardinality(city_coordinates) = 1
    /\ \E row \in city_coordinates : row.city = "London"

\* the step is a call of collect_current_weather, by the cycle or a client
CollectStep ==
    \/ pc = "cycle_city" /\ cyc'.processed = cyc.processed + 1
    \/ /\ pc = "client"
       /\ ops' = ops + 1
       /\ lastCall'.op = "collect_current_weather"

\* C15: a call of collect_current_weather adds one current-observation row
\* exactly when it returns True; a failed fetch returns False; a call that
\* returns False leaves the current and the historical table unchanged and
\* changes the coordinate cache at most by the one row of a resolution that
\* succeeded before the fetch; an answer without wind.speed, wind.deg and
\* visibility still succeeds (unless the INSERT fails), with 0 stored for them.
C15_RowIffSuccess ==
    [][CollectStep =>
        /\ historical_weather' = historical_weather
        /\ IF lastCall'.outcome = "true"
           THEN /\ Len(current_weather') = Len(current_weather) + 1
                /\ IsPrefix(current_weather, current_weather')
           ELSE current_weather' = current_weather
        /\ lastCall'.fetch \in {"http", "json", "missing"}
              => lastCall'.outcome = "false"
        /\ lastCall'.outcome = "false"
              => \/ city_coordinates' = city_coordinates
                 \/ /\ city_coordinates \subseteq city_coordinates'
                    /\ Cardinality(city_coordinates' \ city_coordinates) = 1
                    /\ lastRes'.geo = "match"
                    /\ lastRes'.ret # None
                    /\ lastCall'.fetch # ""
        /\ lastCall'.fetch = "noopt"
              => \/ /\ lastCall'.outcome = "true"
                    /\ LET row == current_weather'[Len(current_weather')]
                       IN  /\ row.wind_speed = 0
                           /\ row.wind_direction = 0
                           /\ row.visibility = 0
                 \/ lastCall'.log = CollectErrorLine(StoreException)]_vars

\* C15 witness: a call that resolved and cached its city and then got an
\* answer without a required field: it returned False, the cache has the
\* new row and the observation tables are empty.
C15_Witness ==
    /\ lastCall.op = "collect_current_weather"
    /\ lastCall.outcome = "false"
    /\ lastCall.fetch = "missing"
    /\ lastRes.geo = "match"
    /\ ~lastRes.dup
    /\ Cardinality(city_coordinates) = 1
    /\ current_weather = <<>>
    /\ historical_weather = <<>>

====
